---------------------------- MODULE Spec2Model ----------------------------
(***************************************************************************)
(* A model of the per-source dispatch loop of rss-notification:            *)
(*   - DailyCache    (src/src/services/common/dailyCache.js, lines 1-278)  *)
(*   - BaseScheduler (same file, lines 279-491)                            *)
(*   - KofeArticleScheduler / NaverFENewsScheduler (the two shapes of      *)
(*     per-source scheduler: one inherits runManualCheck, one overrides)   *)
(***************************************************************************)
EXTENDS Integers, Sequences, FiniteSets, TLC

(***************************************************************************)
(* Bounds of the model.                                                    *)
(***************************************************************************)
MaxLen == 2      \* longest feed (number of articles one fetch returns)
MaxDay == 1      \* the clock runs over calendar days 0..MaxDay
MaxRuns == 2     \* cap of the RunStats counters (runs entered through executeJob)
NTasks == 2      \* trigger invocations that can be pending at once
NSources == 3    \* services the once-mode executor runs, and the largest batch size
MaxParts == 2    \* most parts splitMessage cuts one message into
MaxArgLen == 3   \* longest value of a command-line flag, in characters

Ids == {"u1", "u2"}
Days == 0..MaxDay
Tasks == 1..NTasks
Modes == {"bypass", "memory", "file"}

Range(s) == {s[i] : i \in 1..Len(s)}

SeqsUpTo(S, n) == UNION {[1..k -> S] : k \in 0..n}

\* an article as the feed collaborator hands it over; url is the dedup key
Article(u) == [url |-> u]
Feeds == SeqsUpTo({Article(u) : u \in Ids}, MaxLen)

\* the identifier function every scheduler passes: article => article.url
getPostId(post) == post.url

(***************************************************************************)
(* JavaScript Set: insertion-ordered, no duplicates.                       *)
(***************************************************************************)
SetAdd(s, x) == IF x \in Range(s) THEN s ELSE Append(s, x)

RECURSIVE SetAddAll(_, _)
SetAddAll(s, xs) ==
  IF xs = <<>> THEN s ELSE SetAddAll(SetAdd(s, Head(xs)), Tail(xs))

\* new Set(array)
NewSet(arr) == SetAddAll(<<>>, arr)

\* Array.from(set)
ArrayFrom(s) == s

(***************************************************************************)
(* getTodayKey: the calendar day in Asia/Seoul, formatted by               *)
(* toLocaleDateString('ko-KR') as "YYYY. MM. DD." and then rewritten.      *)
(* Strings are sequences of one-character strings.                         *)
(***************************************************************************)
DigitChar(n) == <<"0", "1", "2", "3", "4", "5", "6", "7", "8", "9">>[n + 1]

Pad2(n) == <<DigitChar(n \div 10), DigitChar(n % 10)>>

Digits4(n) ==
  <<DigitChar(n \div 1000), DigitChar((n \div 100) % 10),
    DigitChar((n \div 10) % 10), DigitChar(n % 10)>>

\* the Seoul date of clock day d: day 0 is 2025-12-31, so day 1 crosses the year
SeoulDate(d) ==
  IF d = 0 THEN [year |-> 2025, month |-> 12, day |-> 31]
  ELSE [year |-> 2026, month |-> 1, day |-> d]

toLocaleDateString(date) ==
  Digits4(date.year) \o <<".", " ">> \o Pad2(date.month) \o <<".", " ">>
    \o Pad2(date.day) \o <<".">>

RECURSIVE ReplaceChar(_, _, _)
ReplaceChar(s, from, to) ==
  IF s = <<>> THEN <<>>
  ELSE <<IF Head(s) = from THEN to ELSE Head(s)>> \o ReplaceChar(Tail(s), from, to)

RECURSIVE RemoveChar(_, _)
RemoveChar(s, c) ==
  IF s = <<>> THEN <<>>
  ELSE (IF Head(s) = c THEN <<>> ELSE <<Head(s)>>) \o RemoveChar(Tail(s), c)

\* .replace(/\./g, '-').replace(/\s/g, '').slice(0, -1)
formatTodayKey(d) ==
  LET s1 == ReplaceChar(toLocaleDateString(SeoulDate(d)), ".", "-")
      s2 == RemoveChar(s1, " ")
  IN SubSeq(s2, 1, Len(s2) - 1)

\* the keys of the days of the clock, computed once
TodayKeys == [d \in Days |-> formatTodayKey(d)]

\* a day key that ignores the clock (what C10 rules out)
getTodayKeyFrozen(d) == TodayKeys[0]

getTodayKey(d) == TodayKeys[d]

(***************************************************************************)
(* DailyCache.  dc is this.dailyCache (a Map from day key to Set), file    *)
(* the content of rss-daily-cache.json:                                    *)
(*   [st |-> "missing"], [st |-> "corrupt"] or [st |-> "json", data |-> m] *)
(***************************************************************************)
EmptyMap == [k \in {} |-> <<>>]

MapSet(m, k, v) == [x \in (DOMAIN m) \cup {k} |-> IF x = k THEN v ELSE m[x]]

MapDelete(m, k) == [x \in (DOMAIN m) \ {k} |-> m[x]]

MissingFile == [st |-> "missing", data |-> EmptyMap]
CorruptFile == [st |-> "corrupt", data |-> EmptyMap]
JsonFile(m) == [st |-> "json", data |-> m]

\* determineCacheMode: an explicit options.cacheMode wins, then bypassCache or
\* --once, then CI, else memory
determineCacheMode(options) ==
  IF options.cacheMode # "none" THEN options.cacheMode
  ELSE IF options.bypassCache \/ options.argvOnce THEN "bypass"
  ELSE IF options.envCI THEN "file"
  ELSE "memory"

\* loadFromFile: only today's bucket is loaded; a missing or corrupt file
\* leaves the Map as it is
loadFromFile(dc, file, d) ==
  IF file.st = "missing" THEN dc
  ELSE IF file.st = "corrupt" THEN dc
  ELSE IF getTodayKey(d) \in DOMAIN file.data
       THEN MapSet(dc, getTodayKey(d), NewSet(file.data[getTodayKey(d)]))
       ELSE dc

\* the constructor: an empty Map, loaded from the file in file mode only
NewDailyCache(mode, file, d) ==
  IF mode = "file" THEN loadFromFile(EmptyMap, file, d) ELSE EmptyMap

\* saveToFile: writes the whole Map in file mode; a failed write is caught
saveToFile(mode, dc, file, writable) ==
  IF mode # "file" THEN file
  ELSE IF ~writable THEN file
  ELSE JsonFile([k \in DOMAIN dc |-> ArrayFrom(dc[k])])

\* getTodayCache: creates today's Set on first access
getTodayCache(dc, d) ==
  IF getTodayKey(d) \in DOMAIN dc THEN dc ELSE MapSet(dc, getTodayKey(d), <<>>)

TodaySet(dc, d) == getTodayCache(dc, d)[getTodayKey(d)]

\* what a cache operation yields: its return value, the Map and the file after it
CacheResult(ret, dc, file) == [ret |-> ret, dc |-> dc, file |-> file]

hasSent(mode, dc, file, d, postId, bypassCache) ==
  IF mode = "bypass" \/ bypassCache THEN CacheResult(FALSE, dc, file)
  ELSE CacheResult(postId \in Range(TodaySet(dc, d)), getTodayCache(dc, d), file)

\* a markAsSent that gives up the mutation when the write fails (what C15 rules out)
markAsSentOrUndo(mode, dc, file, d, writable, postId, bypassCache) ==
  IF mode = "bypass" \/ (bypassCache /\ mode # "file") \/ (mode = "file" /\ ~writable)
  THEN CacheResult(TRUE, dc, file)
  ELSE LET dc1 == MapSet(getTodayCache(dc, d), getTodayKey(d),
                         SetAdd(TodaySet(dc, d), postId))
       IN CacheResult(TRUE, dc1, saveToFile(mode, dc1, file, writable))

markAsSent(mode, dc, file, d, writable, postId, bypassCache) ==
  IF mode = "bypass" \/ (bypassCache /\ mode # "file") THEN CacheResult(TRUE, dc, file)
  ELSE LET dc1 == MapSet(getTodayCache(dc, d), getTodayKey(d),
                         SetAdd(TodaySet(dc, d), postId))
       IN CacheResult(TRUE, dc1, saveToFile(mode, dc1, file, writable))

\* a filter that lets every post through (what C1 rules out)
FilterUnseenAll(posts, seen) == posts

\* posts.filter(post => !todayCache.has(getPostId(post)))
RECURSIVE FilterUnseen(_, _)
FilterUnseen(posts, seen) ==
  IF posts = <<>> THEN <<>>
  ELSE (IF getPostId(Head(posts)) \in Range(seen) THEN <<>> ELSE <<Head(posts)>>)
         \o FilterUnseen(Tail(posts), seen)

PostIds(posts) == [i \in 1..Len(posts) |-> getPostId(posts[i])]

\* a filterNewPosts that never records what it returns (what C8 rules out)
filterNewPostsNoMark(mode, dc, file, d, writable, posts, bypassCache, markAsProcessed) ==
  IF mode = "bypass" \/ (bypassCache /\ mode # "file") THEN CacheResult(posts, dc, file)
  ELSE CacheResult(FilterUnseen(posts, getTodayCache(dc, d)[getTodayKey(d)]),
                   getTodayCache(dc, d), file)

filterNewPosts(mode, dc, file, d, writable, posts, bypassCache, markAsProcessed) ==
  IF mode = "bypass" \/ (bypassCache /\ mode # "file") THEN CacheResult(posts, dc, file)
  ELSE LET dc0 == getTodayCache(dc, d)
           newPosts == FilterUnseen(posts, dc0[getTodayKey(d)])
       IN IF markAsProcessed /\ Len(newPosts) > 0
          THEN LET dc1 == MapSet(dc0, getTodayKey(d),
                                 SetAddAll(dc0[getTodayKey(d)], PostIds(newPosts)))
               IN CacheResult(newPosts, dc1, saveToFile(mode, dc1, file, writable))
          ELSE CacheResult(newPosts, dc0, file)

\* markMultipleAsSent: no mode check and no save
markMultipleAsSent(mode, dc, file, d, posts) ==
  CacheResult(TRUE,
              MapSet(getTodayCache(dc, d), getTodayKey(d),
                     SetAddAll(TodaySet(dc, d), PostIds(posts))),
              file)

\* a cleanup that empties the whole Map (what C11 rules out)
cleanupOldCacheAll(mode, dc, file, d) ==
  CacheResult(Cardinality(DOMAIN dc), EmptyMap, file)

\* cleanupOldCache: deletes every bucket but today's, returns the count
cleanupOldCache(mode, dc, file, d) ==
  LET old == {k \in DOMAIN dc : k # getTodayKey(d)}
  IN CacheResult(Cardinality(old), [k \in (DOMAIN dc) \ old |-> dc[k]], file)

getTodayStats(mode, dc, d) ==
  [date |-> getTodayKey(d),
   cachedCount |-> IF getTodayKey(d) \in DOMAIN dc THEN Len(dc[getTodayKey(d)]) ELSE 0,
   cacheMode |-> mode]


(***************************************************************************)
(* State.                                                                  *)
(***************************************************************************)
VARIABLES
  cacheMode,        \* DailyCache.cacheMode, fixed at construction
  dailyCache,       \* DailyCache.dailyCache
  cacheFile,        \* .cache/rss-daily-cache.json
  diskOk,           \* whether a write of the cache file succeeds
  today,            \* the clock: the current calendar day in Asia/Seoul
  kind,             \* which scheduler class serves the source
  argvTest,         \* process.argv has --test and not --dry-run
  peer,             \* DailyCache.dailyCache of another source of the same process
  batch,            \* BatchProcessor.processInBatches and OnceExecutor.results
  fetcher,          \* a call of BaseArticleService.getNewArticles (domain/article)
  telegram,         \* TelegramService and its call of sendMessage
  filterCall,       \* an article, the AdvancedContentFilter and what its last call returned
  dateUtils,        \* the --filter-days flag, CLI_CONFIG.filtering, globalFilterDays and its readers
  serviceModule,    \* a loaded service (its cache property, its scheduler) and its run through executeService
  scheduler,        \* the multi-source Scheduler: isRunning, stats and the pass in flight
  isRunning,        \* BaseScheduler.isRunning
  isManualRunning,  \* BaseScheduler.isManualRunning
  bypassCache,      \* BaseScheduler.bypassCache (the per-run bypass flag)
  stats,            \* BaseScheduler.stats
  overrideRuns,     \* runs of the overriding runManualCheck (RunStats never counts them)
  task,             \* the pending invocations of executeScheduledJob / runManualCheck
  last,             \* the invocation this turn settled, with what it returned (NoLast if none)
  call              \* the last direct call of the cache API, with what it returned,
                    \* and the identifiers marked so far with the day of the marking

vars == <<cacheMode, dailyCache, cacheFile, diskOk, today, kind, argvTest, peer, batch,
          fetcher, telegram, filterCall, dateUtils, serviceModule, scheduler,
          isRunning, isManualRunning, bypassCache, stats, overrideRuns, task, last, call>>

cacheVars == <<cacheMode, dailyCache, cacheFile>>
schedVars == <<isRunning, isManualRunning, bypassCache, stats, overrideRuns, task>>
ioVars == <<fetcher, telegram, filterCall>>
appVars == <<dateUtils, serviceModule, scheduler>>
procVars == <<kind, argvTest, peer, batch, ioVars, appVars>>

Kinds == {"kofe", "naverfenews"}

\* the suspension points of executeArticleCheck
Cycle == {"fetch", "send", "delay"}
\* the suspension points of the --test branch of NaverFENewsScheduler.runManualCheck
TestCycle == {"testFetch", "testSend"}

NoResult == [status |-> "none", articlesFound |-> 0, messagesSent |-> 0, failed |-> 0]

Result(status, found, sent, failed) ==
  [status |-> status, articlesFound |-> found, messagesSent |-> sent, failed |-> failed]

IdleTask ==
  [pc |-> "idle", trigger |-> "none", viaJob |-> FALSE, bypassArg |-> FALSE,
   articlesFound |-> 0, newArticles |-> <<>>, idx |-> 0,
   successCount |-> 0, failCount |-> 0,
   \* history of the run, read by the properties only:
   \*   mustSkip     the identifiers seen today when the run started; once the
   \*                run has filtered with dedup in force (no bypass flag, not
   \*                bypass mode), those of them it still holds for delivery
   \*   sawInFlight  the run in flight when this one was triggered (0 if none):
   \*                for a manual trigger the scheduled run, for a scheduled
   \*                trigger any run
   \*   redelivered  whether the run delivered an identifier of mustSkip
   \*   failedIds    the identifiers whose delivery failed
   \*   skippedSeen  (bypassArg only) whether filterNewPosts dropped an article
   \*   stored       (bypassArg only) whether a cache call of the run changed
   \*                the Map or the file
   \*   fetchFailed  whether the feed of the run could not be fetched
   \*   attempts     the identifiers the run has called the messenger for, in
   \*                the order of the calls
   mustSkip |-> {}, sawInFlight |-> 0, redelivered |-> FALSE,
   failedIds |-> {}, skippedSeen |-> FALSE, stored |-> FALSE, fetchFailed |-> FALSE,
   attempts |-> <<>>]

\* a settled invocation: what it was, what it returned, and the history the
\* properties read
NoLast ==
  [trigger |-> "none", viaJob |-> FALSE, bypassArg |-> FALSE, result |-> NoResult,
   sawInFlight |-> 0, redelivered |-> FALSE,
   failedSeen |-> FALSE, skippedSeen |-> FALSE, stored |-> FALSE,
   fetchFailed |-> FALSE]

SeenToday == IF getTodayKey(today) \in DOMAIN dailyCache
             THEN Range(dailyCache[getTodayKey(today)]) ELSE {}

InFlight(tk) == tk.pc \in Cycle \cup TestCycle

\* a turn that settles no invocation
Quiet == last' = NoLast

\* a trigger takes the first free slot
Free(t) == task[t].pc = "idle" /\ \A s \in Tasks : s < t => task[s].pc # "idle"

Waiting == {t \in Tasks : task[t].pc = "waiting"}

\* the counters of RunStats count exactly up to a cap and stay there; under
\* Budget (below) no counter reaches its cap
IncRuns(n) == IF n < MaxRuns THEN n + 1 ELSE n
IncArticles(n) == IF n < MaxRuns * MaxLen THEN n + 1 ELSE n

InitStats == [totalRuns |-> 0, successfulRuns |-> 0, failedRuns |-> 0, articlesProcessed |-> 0]

CacheOptions ==
  [cacheMode : {"none"} \cup Modes, bypassCache : BOOLEAN, argvOnce : BOOLEAN, envCI : BOOLEAN]

\* a direct call: its arguments, the day, whether none of its identifiers had been
\* seen (fresh), whether it repeats the call before it (a default filterNewPosts
\* with the same posts on the same day), and what it returned
NoCall == [op |-> "none", posts |-> <<>>, id |-> "", bypass |-> FALSE, mark |-> FALSE,
           day |-> 0, fresh |-> FALSE, repeats |-> FALSE, ret |-> <<>>]

\* the services of the once-mode run, named by their position in loadedServices
Sources == 1..NSources

\* detail.service of a result that carries no value
Unknown == 0

\* OnceExecutor.results as the constructor leaves it
InitResults ==
  [total |-> 0, success |-> 0, failed |-> 0, articlesFound |-> 0, messagesSent |-> 0,
   details |-> <<>>]

\* what Promise.allSettled reports for one item: the value executeService
\* resolved with, or the reason executeWithTimeout rejected with
NoValue == [success |-> FALSE, service |-> Unknown, result |-> NoResult, error |-> "none"]

Fulfilled(value) == [status |-> "fulfilled", hasValue |-> TRUE, value |-> value, reason |-> "none"]

Rejected(reason) == [status |-> "rejected", hasValue |-> FALSE, value |-> NoValue, reason |-> reason]

\* an invocation of processFn: the promise of executeWithTimeout is not
\* started, pending, or settled with res; exec tells whether the call of
\* processFn itself is still executing; fetchFailed remembers that the feed
\* of its run could not be fetched
NotStarted ==
  [st |-> "notStarted", res |-> Rejected("none"), fetchFailed |-> FALSE, exec |-> "none"]

Pending == [NotStarted EXCEPT !.st = "pending", !.exec = "running"]

InitBatch ==
  [phase |-> "idle", n |-> 0, batchSize |-> 0, i |-> 0,
   inv |-> [s \in Sources |-> NotStarted],
   results |-> <<>>, cooldowns |-> 0, summary |-> InitResults]

\* BaseArticleService.options (domain/article): attempts at the feed, and the
\* unit of the wait between them in ms
maxRetries == 3
retryDelay == 1000

\* config.retry: attempts at one message, and the first wait in ms
maxAttempts == 3
delay == 1000

\* no call of getNewArticles yet
InitFetcher == [pc |-> "idle", attempt |-> 0, parses |-> 0, waits |-> <<>>, failed |-> FALSE]

\* the TelegramService singleton after construction, no call of sendMessage yet
InitTelegram ==
  [isDryRun |-> FALSE, isInitialized |-> FALSE, pc |-> "idle", parts |-> 0, part |-> 0,
   attempt |-> 0, waits |-> <<>>, netCalls |-> 0, error |-> "none", calledDry |-> FALSE]

\* An article as AdvancedContentFilter reads it.  The filter only tests
\* the lowercased title and content against its patterns and keyword lists,
\* so an article is given by the outcome of those tests:
\*   excl         some exclusionPattern matches title + ' ' + content
\*   backendOnly  some backendOnlyPattern matches
\*   event        the text includes one of eventKeywords
\*   dev, tech    the text includes one of devKeywords, of techKeywords
\*   project, frontend, ai, context, tools
\*                what the five get...Score methods return, in thousandths
\*   penalty      what getDiscouragementPenalty returns, in thousandths
ScoredArticles ==
  [excl : BOOLEAN, backendOnly : BOOLEAN, event : BOOLEAN, dev : BOOLEAN, tech : BOOLEAN,
   community : BOOLEAN, title : {"string", "missing"}, descriptionOnly : BOOLEAN,
   project : {0, 1000}, frontend : {0, 1000}, ai : {0}, context : {0, 150},
   tools : {0, 800}, penalty : {0, -300, -1200}]

\* an article without any keyword of the filter
PlainArticle ==
  [excl |-> FALSE, backendOnly |-> FALSE, event |-> FALSE, dev |-> FALSE, tech |-> FALSE,
   community |-> FALSE, title |-> "string", descriptionOnly |-> FALSE,
   project |-> 0, frontend |-> 0, ai |-> 0, context |-> 0, tools |-> 0, penalty |-> 0]

\* an article whose title is a truthy value that is not a string: no text
\* is ever built from it
MalformedArticles == {[PlainArticle EXCEPT !.title = "number"]}

Articles == ScoredArticles \cup MalformedArticles

\* what a call of the filter yields: it threw, or its decision with the
\* score it logged or returned, in units of 1/100000
FilterOut(isRelevant, score) == [threw |-> FALSE, isRelevant |-> isRelevant, score |-> score]
FilterThrew == [threw |-> TRUE, isRelevant |-> FALSE, score |-> 0]

FilterOps == {"isRelevantContent", "getDetailedFilterResult"}

\* op and out are the latest call and what it yielded; called and outs keep
\* what each of the two functions yielded for this article
NoFilterCall ==
  [article |-> PlainArticle, lenient |-> FALSE, op |-> "none", out |-> FilterOut(FALSE, 0),
   called |-> {}, outs |-> [o \in FilterOps |-> FilterOut(FALSE, 0)]]

\* the characters of a flag value; parseInt reads a sign and decimal digits
Chars == {"-", "0", "3", "9", "x"}
DigitChars == {"0", "3", "9"}

\* a number of JavaScript as far as parseInt yields one: an integer or NaN
NaN == [nan |-> TRUE, n |-> 0]
Num(n) == [nan |-> FALSE, n |-> n]

NoRead == [op |-> "none", threw |-> FALSE, days |-> 1]

\* dateUtils.js: let globalFilterDays = 1; the flag has not been parsed yet
InitDateUtils ==
  [given |-> FALSE, value |-> <<>>, pc |-> "argv", filterDays |-> 1,
   globalFilterDays |-> 1, setBy |-> "none", read |-> NoRead]

\* what serviceModule.cache and scheduler.cache can refer to: the DailyCache
\* the service was constructed with, the wrapper of Scheduler.executeService,
\* the dummy of a dry run
CacheRefs == {"DailyCache", "filterWrapper", "dryRunCache"}

\* the service as its constructor leaves it (this.cache = new DailyCache(...),
\* this.scheduler = new ...Scheduler(articleService, messenger, this.cache)),
\* loaded by the multi-source Scheduler or by the OnceExecutor; before is the
\* real cache (today's identifiers and the file) when the latest run started
InitServiceModule ==
  [dryRun |-> FALSE, entry |-> "Scheduler", cache |-> "DailyCache",
   schedulerCache |-> "DailyCache", pc |-> "idle", newArticles |-> <<>>, idx |-> 0,
   successCount |-> 0, failCount |-> 0, runs |-> 0, before |-> [seen |-> {}, file |-> MissingFile]]

\* what executeService of one service resolved with: nothing yet, a result
\* with success true, the error result of its catch, or no value at all
ServiceValues == {"ok", "failed", "noValue"}

\* Scheduler.constructor.  pending and values are the Promise.allSettled of
\* the pass in flight; inFlight counts the passes in flight, lastTick is what
\* the cron tick of this turn did, skippedTicks counts the skipped ticks
InitScheduler ==
  [isRunning |-> FALSE,
   stats |-> [totalRuns |-> 0, successRuns |-> 0, failedRuns |-> 0],
   pending |-> {}, values |-> [s \in Sources |-> "none"],
   inFlight |-> 0, lastTick |-> "none", skippedTicks |-> 0]

InitFiles ==
  {MissingFile, CorruptFile, JsonFile(MapSet(EmptyMap, getTodayKey(0), <<"u1">>))}

BaseInit ==
  /\ \E o \in CacheOptions : cacheMode = determineCacheMode(o)
  /\ cacheFile \in (IF cacheMode = "file" THEN InitFiles ELSE {MissingFile})
  /\ today = 0
  /\ dailyCache = NewDailyCache(cacheMode, cacheFile, today)
  /\ diskOk = TRUE
  /\ kind \in Kinds
  /\ argvTest \in (IF kind = "naverfenews" THEN BOOLEAN ELSE {FALSE})
  /\ peer = NewDailyCache(cacheMode, cacheFile, today)
  /\ batch = InitBatch
  /\ fetcher = InitFetcher
  /\ telegram = InitTelegram
  /\ scheduler = InitScheduler
  /\ isRunning = FALSE
  /\ isManualRunning = FALSE
  /\ bypassCache = FALSE
  /\ stats = InitStats
  /\ overrideRuns = 0
  /\ task = [t \in Tasks |-> IdleTask]
  /\ last = NoLast
  /\ call = [cur |-> NoCall, marked |-> {<<today, u>> : u \in SeenToday}]

\* no filter call is under observation
Init ==
  /\ BaseInit
  /\ filterCall = [NoFilterCall EXCEPT !.article = PlainArticle]
  /\ dateUtils = InitDateUtils
  /\ serviceModule = InitServiceModule


(***************************************************************************)
(* BaseScheduler and its two subclasses.  One action is one turn of the    *)
(* event loop: from a trigger or the settling of an awaited promise up to  *)
(* the next await on a collaborator or timer.  Continuations of already    *)
(* settled promises (the finally blocks that follow a return) belong to    *)
(* the same turn.                                                          *)
(***************************************************************************)
TodaySeenIn(dc) == IF getTodayKey(today) \in DOMAIN dc
                   THEN Range(dc[getTodayKey(today)]) ELSE {}

\* the scheduled run in flight, if any (0 if none)
ScheduledInFlight ==
  IF \E s \in Tasks : InFlight(task[s]) /\ task[s].trigger = "scheduled"
  THEN CHOOSE s \in Tasks : InFlight(task[s]) /\ task[s].trigger = "scheduled"
  ELSE 0

AnyInFlight ==
  IF \E s \in Tasks : InFlight(task[s])
  THEN CHOOSE s \in Tasks : InFlight(task[s])
  ELSE 0

\* the budget of runs: those entered plus the manual runs waiting to enter
Budget == stats.totalRuns + overrideRuns + Cardinality(Waiting) < MaxRuns

\* whether dedup is in force for a run that passes the bypass flag b to the cache
Dedup(b) == cacheMode # "bypass" /\ ~b

\* BaseArticleService.getRecentArticles: the articles of the feed; a feed that
\* cannot be fetched or parsed gives [] (the catch block)
FeedOk(items) == [ok |-> TRUE, items |-> items]
FeedError == [ok |-> FALSE, items |-> <<>>]

getRecentArticles(feed) == IF feed.ok THEN feed.items ELSE <<>>

\* variant: the loop visits the items from the last to the first
forOfReversed(items, k) == items[Len(items) + 1 - k]

\* for (const article of newArticles): the item of the k-th turn of the loop
forOf(items, k) == items[k]

\* the k-th turn of the loop up to its await: the messenger is called
Attempt(tk, k) ==
  [tk EXCEPT !.pc = "send", !.idx = k,
             !.attempts = Append(@, getPostId(forOf(tk.newArticles, k)))]

\* variant: isRunning is cleared at the end of the try block only
executeJobNoFinally(viaJob, outcome, running) ==
  IF viaJob /\ outcome = "returned" THEN FALSE ELSE running

\* the finally block of executeJob
executeJobFinally(viaJob, outcome, running) == IF viaJob THEN FALSE ELSE running

\* a fresh invocation record
NewTask(trigger, viaJob, b) ==
  [IdleTask EXCEPT !.trigger = trigger, !.viaJob = viaJob, !.bypassArg = b,
                   !.sawInFlight = IF trigger = "manual" THEN ScheduledInFlight
                                    ELSE AnyInFlight]

\* entering executeArticleCheck, up to its first await (the fetch)
EnterCycle(tk) ==
  [tk EXCEPT !.pc = "fetch", !.mustSkip = SeenToday]

\* executeJob after executeArticleCheck settled (try / catch / finally), then the
\* finally of runManualCheck; for NaverFENewsScheduler.runManualCheck its own
\* catch and finally
Settle(t, tk, st, dc, outcome, res) ==
  /\ stats' = IF ~tk.viaJob THEN st
              ELSE IF outcome = "returned"
                   THEN [st EXCEPT !.successfulRuns = IncRuns(@)]
                   ELSE [st EXCEPT !.failedRuns = IncRuns(@)]
  /\ isRunning' = executeJobFinally(tk.viaJob, outcome, isRunning)
  /\ UNCHANGED overrideRuns
  /\ isManualRunning' = IF tk.viaJob /\ tk.trigger = "manual" THEN FALSE
                        ELSE isManualRunning
  /\ bypassCache' = IF tk.trigger = "manual" THEN FALSE ELSE bypassCache
  /\ task' = [task EXCEPT ![t] = IdleTask]
  /\ last' = [trigger |-> tk.trigger, viaJob |-> tk.viaJob, bypassArg |-> tk.bypassArg,
              result |-> IF outcome = "returned" THEN res
                         ELSE IF tk.viaJob THEN Result("threw", 0, 0, 0)
                         ELSE Result("errorResult", 0, 0, 0),
              sawInFlight |-> tk.sawInFlight,
              redelivered |-> tk.redelivered,
              failedSeen |-> (tk.failedIds \cap TodaySeenIn(dc) # {}),
              skippedSeen |-> tk.skippedSeen,
              stored |-> tk.stored,
              fetchFailed |-> tk.fetchFailed]

\* the for loop of executeArticleCheck after item tk.idx: the next send, or return
NextItem(t, tk, st, dc) ==
  IF tk.idx < Len(tk.newArticles)
  THEN /\ task' = [task EXCEPT ![t] = Attempt(tk, tk.idx + 1)]
       /\ stats' = st
       /\ UNCHANGED <<isRunning, isManualRunning, bypassCache, overrideRuns>> /\ Quiet
  ELSE Settle(t, tk, st, dc, "returned",
              Result("returned", tk.articlesFound, tk.successCount, tk.failCount))

\* a cron tick: executeScheduledJob, then executeJob('scheduled')
executeScheduledJob ==
  /\ IF isManualRunning \/ isRunning
     THEN \* skipped, returns undefined
          /\ last' = [NoLast EXCEPT !.trigger = "scheduled", !.viaJob = TRUE,
                                    !.result = Result("skipped", 0, 0, 0),
                                    !.sawInFlight = AnyInFlight]
          /\ UNCHANGED <<isRunning, isManualRunning, bypassCache, stats, task>>
     ELSE \E t \in Tasks :
            /\ Free(t)
            /\ isRunning' = TRUE
            /\ stats' = [stats EXCEPT !.totalRuns = IncRuns(@)]
            /\ task' = [task EXCEPT ![t] = EnterCycle(NewTask("scheduled", TRUE, FALSE))]
            /\ UNCHANGED <<isManualRunning, bypassCache>> /\ Quiet
  /\ UNCHANGED overrideRuns
  /\ UNCHANGED <<cacheVars, diskOk, today, procVars, call>>

\* BaseScheduler.runManualCheck once isRunning is false: the flags, then
\* executeJob('manual') up to the fetch
StartManual(t, tk) ==
  /\ isManualRunning' = TRUE
  /\ bypassCache' = tk.bypassArg
  /\ isRunning' = TRUE
  /\ stats' = [stats EXCEPT !.totalRuns = IncRuns(@)]
  /\ task' = [task EXCEPT ![t] = EnterCycle(tk)]
  /\ UNCHANGED overrideRuns
  /\ Quiet

\* a manual trigger (CLI, route or once mode): runManualCheck(bypassCache)
runManualCheck(t, b) ==
  /\ Free(t)
  /\ IF kind = "naverfenews"
     THEN \* the override: no wait, no executeJob
          /\ overrideRuns' = overrideRuns + 1
          /\ bypassCache' = b
          /\ task' = [task EXCEPT ![t] =
                        IF argvTest
                        THEN [NewTask("manual", FALSE, b) EXCEPT
                                !.pc = "testFetch", !.mustSkip = SeenToday]
                        ELSE EnterCycle(NewTask("manual", FALSE, b))]
          /\ UNCHANGED <<isRunning, isManualRunning, stats>> /\ Quiet
     ELSE IF isRunning
          THEN /\ task' = [task EXCEPT ![t] =
                             [NewTask("manual", TRUE, b) EXCEPT !.pc = "waiting"]]
               /\ UNCHANGED <<isRunning, isManualRunning, bypassCache, stats,
                              overrideRuns>>
               /\ Quiet
          ELSE StartManual(t, NewTask("manual", TRUE, b))
  /\ UNCHANGED <<cacheVars, diskOk, today, procVars, call>>

\* the wait loop of runManualCheck: while (this.isRunning) await sleep(1000)
ManualPoll(t) ==
  /\ task[t].pc = "waiting"
  /\ IF isRunning
     THEN UNCHANGED schedVars /\ Quiet
     ELSE StartManual(t, task[t])
  /\ UNCHANGED <<cacheVars, diskOk, today, procVars, call>>

\* the fetch resolves with a feed: filterNewPosts, then the first send
FetchReturn(t, feed) ==
  /\ task[t].pc = "fetch"
  /\ IF Len(feed) = 0
     THEN /\ Settle(t, task[t], stats, dailyCache, "returned", Result("returned", 0, 0, 0))
          /\ UNCHANGED <<dailyCache, cacheFile>>
     ELSE LET r == filterNewPosts(cacheMode, dailyCache, cacheFile, today, diskOk,
                                  feed, bypassCache, TRUE)
              tk == [task[t] EXCEPT
                       !.articlesFound = Len(feed), !.newArticles = r.ret,
                       !.mustSkip = IF Dedup(bypassCache)
                                    THEN @ \cap Range(PostIds(r.ret)) ELSE {},
                       !.skippedSeen = @ \/ (task[t].bypassArg /\ Len(r.ret) < Len(feed)),
                       !.stored = @ \/ (task[t].bypassArg
                                        /\ (r.dc # dailyCache \/ r.file # cacheFile))]
          IN /\ dailyCache' = r.dc
             /\ cacheFile' = r.file
             /\ IF Len(r.ret) = 0
                THEN Settle(t, tk, stats, r.dc, "returned",
                            Result("returned", Len(feed), 0, 0))
                ELSE /\ task' = [task EXCEPT ![t] = Attempt(tk, 1)]
                     /\ UNCHANGED <<isRunning, isManualRunning, bypassCache, stats, overrideRuns>> /\ Quiet
  /\ UNCHANGED <<cacheMode, diskOk, today, procVars, call>>

\* the feed cannot be fetched or parsed: the article service catches the error,
\* logs it and returns [], and executeArticleCheck returns as for an empty feed
FetchThrow(t) ==
  /\ task[t].pc = "fetch"
  /\ Settle(t, [task[t] EXCEPT !.fetchFailed = TRUE], stats, dailyCache, "returned",
            Result("returned", Len(getRecentArticles(FeedError)), 0, 0))
  /\ UNCHANGED <<cacheVars, diskOk, today, procVars, call>>

\* executeArticleCheck rejects at its first await: the article service the
\* scheduler was given rejects (or resolves with no array, and the next
\* statement throws); executeJob counts the failed run and rethrows
CycleThrow(t) ==
  /\ task[t].pc = "fetch"
  /\ Settle(t, task[t], stats, dailyCache, "threw", NoResult)
  /\ UNCHANGED <<cacheVars, diskOk, today, procVars, call>>

\* the messenger resolves for item idx
SendOk(t) ==
  /\ task[t].pc = "send"
  /\ LET url == getPostId(forOf(task[t].newArticles, task[t].idx))
         r == IF kind = "kofe"
              THEN markAsSent(cacheMode, dailyCache, cacheFile, today, diskOk,
                              url, bypassCache)
              ELSE CacheResult(TRUE, dailyCache, cacheFile)
         st == IF kind = "kofe"
               THEN [stats EXCEPT !.articlesProcessed = IncArticles(@)] ELSE stats
         tk == [task[t] EXCEPT
                  !.successCount = @ + 1,
                  !.redelivered = @ \/ url \in task[t].mustSkip,
                  !.stored = @ \/ (task[t].bypassArg
                                   /\ (r.dc # dailyCache \/ r.file # cacheFile))]
     IN /\ dailyCache' = r.dc
        /\ cacheFile' = r.file
        /\ IF Len(tk.newArticles) > 1
           THEN /\ task' = [task EXCEPT ![t] = [tk EXCEPT !.pc = "delay"]]
                /\ stats' = st
                /\ UNCHANGED <<isRunning, isManualRunning, bypassCache, overrideRuns>> /\ Quiet
           ELSE NextItem(t, tk, st, r.dc)
  /\ UNCHANGED <<cacheMode, diskOk, today, procVars, call>>

\* the messenger rejects for item idx: caught inside the loop
SendFail(t) ==
  /\ task[t].pc = "send"
  /\ LET url == getPostId(forOf(task[t].newArticles, task[t].idx))
         tk == [task[t] EXCEPT
                  !.failCount = IF kind = "kofe" THEN @ + 1 ELSE @,
                  !.failedIds = @ \cup {url}]
     IN NextItem(t, tk, stats, dailyCache)
  /\ UNCHANGED <<cacheVars, diskOk, today, procVars, call>>

\* the delay between two sends elapses
DelayDone(t) ==
  /\ task[t].pc = "delay"
  /\ NextItem(t, task[t], stats, dailyCache)
  /\ UNCHANGED <<cacheVars, diskOk, today, procVars, call>>

\* --test branch of NaverFENewsScheduler.runManualCheck: getTestUpdate resolves
TestFetchReturn(t, u) ==
  /\ task[t].pc = "testFetch"
  /\ LET r == IF task[t].bypassArg
              THEN CacheResult(<<Article(u)>>, dailyCache, cacheFile)
              ELSE filterNewPosts(cacheMode, dailyCache, cacheFile, today, diskOk,
                                  <<Article(u)>>, task[t].bypassArg, TRUE)
         tk == [task[t] EXCEPT
                  !.articlesFound = 1, !.newArticles = r.ret,
                  !.mustSkip = IF Dedup(task[t].bypassArg)
                               THEN @ \cap Range(PostIds(r.ret)) ELSE {},
                  !.skippedSeen = task[t].bypassArg /\ Len(r.ret) < 1,
                  !.stored = task[t].bypassArg
                             /\ (r.dc # dailyCache \/ r.file # cacheFile)]
     IN /\ dailyCache' = r.dc
        /\ cacheFile' = r.file
        /\ IF Len(r.ret) > 0
           THEN /\ task' = [task EXCEPT ![t] = [Attempt(tk, 1) EXCEPT !.pc = "testSend"]]
                /\ UNCHANGED <<isRunning, isManualRunning, bypassCache, stats, overrideRuns>> /\ Quiet
           ELSE Settle(t, tk, stats, r.dc, "returned", Result("returned", 1, 0, 0))
  /\ UNCHANGED <<cacheMode, diskOk, today, procVars, call>>

\* getTestUpdate or the test send rejects: caught by runManualCheck
TestThrow(t) ==
  /\ task[t].pc \in TestCycle
  /\ Settle(t, [task[t] EXCEPT
                  !.failedIds = IF task[t].pc = "testSend"
                                THEN {getPostId(task[t].newArticles[1])} ELSE {}],
            stats, dailyCache, "threw", NoResult)
  /\ UNCHANGED <<cacheVars, diskOk, today, procVars, call>>

\* the test send resolves
TestSendOk(t) ==
  /\ task[t].pc = "testSend"
  /\ Settle(t, [task[t] EXCEPT
                  !.successCount = 1,
                  !.redelivered = getPostId(task[t].newArticles[1]) \in task[t].mustSkip],
            stats, dailyCache, "returned", Result("returned", 1, 1, 0))
  /\ UNCHANGED <<cacheVars, diskOk, today, procVars, call>>

\* midnight in Seoul; nothing has been seen on the new day
DayTick ==
  /\ today < MaxDay
  /\ today' = today + 1
  /\ task' = [t \in Tasks |-> [task[t] EXCEPT !.mustSkip = {}]]
  /\ UNCHANGED <<cacheVars, diskOk, procVars, isRunning, isManualRunning,
                 bypassCache, stats, overrideRuns, call>>
  /\ Quiet

(***************************************************************************)
(* Direct calls of the cache API (services, routes and start() call the    *)
(* cache outside a scheduler run).                                         *)
(***************************************************************************)
\* the identifiers of today's bucket of the cache file
FileToday(file) ==
  IF file.st = "json" /\ getTodayKey(today) \in DOMAIN file.data
  THEN Range(file.data[getTodayKey(today)]) ELSE {}

\* the state after a cache call that yielded r, and the record of the call
Called(r, c) ==
  /\ dailyCache' = r.dc
  /\ cacheFile' = r.file
  /\ call' = [cur |-> [c EXCEPT !.day = today, !.ret = r.ret],
              marked |-> call.marked
                         \cup {<<today, u>> : u \in TodaySeenIn(r.dc) \ SeenToday}]
  /\ UNCHANGED <<cacheMode, diskOk, today, procVars, schedVars>>
  /\ Quiet

CallHasSent(id, b) ==
  Called(hasSent(cacheMode, dailyCache, cacheFile, today, id, b),
         [NoCall EXCEPT !.op = "hasSent", !.id = id, !.bypass = b,
                        !.fresh = id \notin SeenToday])

CallMarkAsSent(id, b) ==
  Called(markAsSent(cacheMode, dailyCache, cacheFile, today, diskOk, id, b),
         [NoCall EXCEPT !.op = "markAsSent", !.id = id, !.bypass = b,
                        !.fresh = id \notin SeenToday])

CallFilterNewPosts(posts, b, mark) ==
  Called(filterNewPosts(cacheMode, dailyCache, cacheFile, today, diskOk, posts, b, mark),
         [NoCall EXCEPT !.op = "filterNewPosts", !.posts = posts, !.bypass = b,
                        !.mark = mark,
                        !.fresh = Range(PostIds(posts)) \cap SeenToday = {},
                        !.repeats = /\ call.cur.op = "filterNewPosts"
                                    /\ call.cur.posts = posts
                                    /\ call.cur.day = today
                                    /\ ~call.cur.bypass /\ call.cur.mark
                                    /\ ~b /\ mark])

CallMarkMultipleAsSent(posts) ==
  Called(markMultipleAsSent(cacheMode, dailyCache, cacheFile, today, posts),
         [NoCall EXCEPT !.op = "markMultipleAsSent", !.posts = posts,
                        !.fresh = Range(PostIds(posts)) \cap SeenToday = {}])

CallCleanupOldCache ==
  Called(cleanupOldCache(cacheMode, dailyCache, cacheFile, today),
         [NoCall EXCEPT !.op = "cleanupOldCache"])

\* the disk stops or starts accepting writes
DiskFlip ==
  /\ diskOk' = ~diskOk
  /\ UNCHANGED <<cacheVars, today, procVars, schedVars, call>>
  /\ Quiet

\* the process ends and a fresh one constructs the caches again
Restart ==
  /\ dailyCache' = NewDailyCache(cacheMode, cacheFile, today)
  /\ peer' = NewDailyCache(cacheMode, cacheFile, today)
  /\ call' = [call EXCEPT !.cur = NoCall]
  /\ UNCHANGED <<cacheMode, cacheFile, diskOk, today, kind, argvTest, batch, ioVars, appVars, schedVars>>
  /\ Quiet

CacheNext ==
  \/ \E id \in Ids, b \in BOOLEAN : CallHasSent(id, b)
  \/ \E id \in Ids, b \in BOOLEAN : CallMarkAsSent(id, b)
  \/ \E posts \in Feeds, b \in BOOLEAN, mark \in BOOLEAN : CallFilterNewPosts(posts, b, mark)
  \/ \E posts \in Feeds : CallMarkMultipleAsSent(posts)
  \/ CallCleanupOldCache
  \/ DiskFlip
  \/ DayTick
  \/ Restart

(***************************************************************************)
(* Several sources in one process, and one process after another.  Every   *)
(* service constructs its own DailyCache with the default cacheDir, so     *)
(* they all read and write .cache/rss-daily-cache.json.  Here the disk     *)
(* accepts every write and the source marks through the calls that save,   *)
(* so what it has marked it has also written.                              *)
(***************************************************************************)
PeerIds == {"v1"}

\* another source marks one of its identifiers: markAsSent on its own cache
PeerMarkAsSent(id) ==
  /\ LET r == markAsSent(cacheMode, peer, cacheFile, today, diskOk, id, FALSE)
     IN /\ peer' = r.dc
        /\ cacheFile' = r.file
  /\ UNCHANGED <<cacheMode, dailyCache, diskOk, today, kind, argvTest, batch, ioVars, appVars,
                 schedVars, call>>
  /\ Quiet

FileNext ==
  \/ \E id \in Ids, b \in BOOLEAN : CallHasSent(id, b)
  \/ \E id \in Ids, b \in BOOLEAN : CallMarkAsSent(id, b)
  \/ \E posts \in Feeds, b \in BOOLEAN, mark \in BOOLEAN : CallFilterNewPosts(posts, b, mark)
  \/ \E id \in PeerIds : PeerMarkAsSent(id)
  \/ Restart
  \/ DayTick

(***************************************************************************)
(* Once mode: OnceExecutor runs every loaded service through               *)
(* BatchProcessor.processInBatches and sums up the results.                *)
(***************************************************************************)
BatchSizes == 1..NSources

Min(a, b) == IF a < b THEN a ELSE b

\* items.slice(i, i + batchSize), as positions in items
BatchItems(i, batchSize, n) == (i + 1)..Min(i + batchSize, n)

\* the runs a service can make of runManualCheck: it returns a result (for a
\* feed that cannot be fetched, the result of an empty feed), or it throws
ServiceRuns ==
  {[threw |-> FALSE, fetchFailed |-> TRUE,
    result |-> Result("returned", Len(getRecentArticles(FeedError)), 0, 0)]}
  \cup {[threw |-> FALSE, fetchFailed |-> FALSE, result |-> Result("returned", r[1], r[2], r[1] - r[2])] :
          r \in {<<0, 0>>, <<1, 0>>, <<1, 1>>}}
  \cup {[threw |-> TRUE, fetchFailed |-> FALSE, result |-> NoResult]}

\* OnceExecutor.executeService: the run's result wrapped, or the caught error
executeService(service, run) ==
  IF run.threw
  THEN [success |-> FALSE, service |-> service, result |-> NoResult, error |-> "threw"]
  ELSE [success |-> TRUE, service |-> service, result |-> run.result, error |-> "none"]

\* variant: a cooldown after every batch, the last one included
needsCooldownAlways(i, batchSize, n) == TRUE

\* the cooldown test at the end of the loop body
needsCooldown(i, batchSize, n) == i + batchSize < n

\* variant: a detail is listed but neither counter is stepped
analyzeOneUncounted(results, result) ==
  [results EXCEPT !.details = Append(@, [service |-> Unknown, success |-> FALSE,
                                         articlesFound |-> 0, messagesSent |-> 0,
                                         error |-> result.reason])]

\* OnceExecutor.analyzeResults: one detail per settled result
analyzeOne(results, result) ==
  IF result.status = "fulfilled" /\ result.value.success
  THEN [results EXCEPT
          !.success = @ + 1,
          !.articlesFound = @ + result.value.result.articlesFound,
          !.messagesSent = @ + result.value.result.messagesSent,
          !.details = Append(@, [service |-> result.value.service, success |-> TRUE,
                                 articlesFound |-> result.value.result.articlesFound,
                                 messagesSent |-> result.value.result.messagesSent,
                                 error |-> "none"])]
  ELSE LET errorInfo == IF result.hasValue
                        THEN [service |-> result.value.service, error |-> result.value.error]
                        ELSE [service |-> Unknown, error |-> result.reason]
       IN [results EXCEPT
             !.failed = @ + 1,
             !.details = Append(@, [service |-> errorInfo.service, success |-> FALSE,
                                    articlesFound |-> 0, messagesSent |-> 0,
                                    error |-> errorInfo.error])]

RECURSIVE analyzeResults(_, _)
analyzeResults(results, settled) ==
  IF settled = <<>> THEN results
  ELSE analyzeResults(analyzeOne(results, Head(settled)), Tail(settled))

\* the loop body up to await Promise.allSettled: every item of the batch starts
StartBatch(b, i) ==
  [b EXCEPT !.phase = "running", !.i = i,
            !.inv = [s \in Sources |->
                       IF s \in BatchItems(i, b.batchSize, b.n) THEN Pending ELSE b.inv[s]]]

\* processInBatches returns; executeAllServicesInParallel analyzes the results
Finish(b) ==
  [b EXCEPT !.phase = "done",
            !.summary = analyzeResults([InitResults EXCEPT !.total = b.n], b.results)]

BatchFrame ==
  UNCHANGED <<cacheVars, diskOk, today, kind, argvTest, peer, ioVars, appVars, schedVars,
              call>> /\ Quiet

\* executeAllServicesInParallel: processInBatches over n loaded services
processInBatches(n, batchSize) ==
  /\ batch.phase = "idle"
  /\ LET b == [batch EXCEPT !.n = n, !.batchSize = batchSize]
     IN batch' = IF 0 < n THEN StartBatch(b, 0) ELSE Finish(b)
  /\ BatchFrame

\* variant: a promise that takes the latest settlement
raceLatest(cur, new) == new

\* Promise.race: the promise settles with the first settlement; a later one
\* is ignored
race(cur, new) == IF cur.st = "pending" THEN new ELSE cur

\* executeService(service) returns, before the timer of executeWithTimeout
\* or after it (nothing cancels the call when the timer wins the race)
ServiceSettles(s, run) ==
  /\ batch.phase # "idle" /\ batch.inv[s].exec = "running"
  /\ batch' = [batch EXCEPT !.inv[s] =
                 [race(@, [st |-> "fulfilled", res |-> Fulfilled(executeService(s, run)),
                           fetchFailed |-> run.fetchFailed, exec |-> "running"])
                  EXCEPT !.exec = "ended"]]
  /\ BatchFrame

\* the timer of executeWithTimeout fires first: the race rejects
TimeoutFires(s) ==
  /\ batch.phase = "running" /\ batch.inv[s].st = "pending"
  /\ batch' = [batch EXCEPT !.inv[s] =
                 race(@, [st |-> "rejected", res |-> Rejected("timeout"),
                          fetchFailed |-> FALSE, exec |-> "running"])]
  /\ BatchFrame

\* Promise.allSettled resolves: the results are pushed, then the cooldown
\* starts or the loop ends
BatchSettled ==
  /\ batch.phase = "running"
  /\ \A s \in BatchItems(batch.i, batch.batchSize, batch.n) :
       batch.inv[s].st \in {"fulfilled", "rejected"}
  /\ LET len == Min(batch.i + batch.batchSize, batch.n) - batch.i
         b == [batch EXCEPT !.results = @ \o [k \in 1..len |-> batch.inv[batch.i + k].res]]
     IN batch' = IF needsCooldown(b.i, b.batchSize, b.n)
                 THEN [b EXCEPT !.phase = "cooldown"]
                 ELSE IF b.i + b.batchSize < b.n THEN StartBatch(b, b.i + b.batchSize)
                 ELSE Finish(b)
  /\ BatchFrame

\* the cooldown elapses: the next turn of the loop
CooldownDone ==
  /\ batch.phase = "cooldown"
  /\ LET b == [batch EXCEPT !.cooldowns = @ + 1]
     IN batch' = IF b.i + b.batchSize < b.n THEN StartBatch(b, b.i + b.batchSize)
                 ELSE Finish(b)
  /\ BatchFrame

BatchInit == Init /\ kind = "kofe" /\ cacheMode = "bypass"

BatchNext ==
  \/ \E n \in 0..NSources, batchSize \in BatchSizes : processInBatches(n, batchSize)
  \/ \E s \in Sources, run \in ServiceRuns : ServiceSettles(s, run)
  \/ \E s \in Sources : TimeoutFires(s)
  \/ BatchSettled
  \/ CooldownDone

BatchSpec == BatchInit /\ [][BatchNext]_vars

(***************************************************************************)
(* The collaborators of a run that retry: the article service of           *)
(* domain/article fetching its feed, and TelegramService sending one       *)
(* message.                                                                *)
(***************************************************************************)
IoFrame ==
  UNCHANGED <<cacheVars, diskOk, today, kind, argvTest, peer, batch, filterCall, appVars,
              schedVars, call>> /\ Quiet

\* the wait of _fetchFeedWithRetry after a failed attempt
feedBackoff(attempt) == retryDelay * attempt

\* getNewArticles up to the first await of _fetchFeedWithRetry: parseFeed()
getNewArticles ==
  /\ fetcher.pc \in {"idle", "returned"}
  /\ fetcher' = [InitFetcher EXCEPT !.pc = "parsing", !.attempt = 1, !.parses = 1]
  /\ UNCHANGED telegram /\ IoFrame

\* parseFeed resolves: getNewArticles returns the articles
ParseFeedOk ==
  /\ fetcher.pc = "parsing"
  /\ fetcher' = [fetcher EXCEPT !.pc = "returned"]
  /\ UNCHANGED telegram /\ IoFrame

\* parseFeed rejects: a wait and another attempt, or lastError is thrown and
\* getNewArticles catches it and returns []
ParseFeedFail ==
  /\ fetcher.pc = "parsing"
  /\ fetcher' = IF fetcher.attempt < maxRetries
                THEN [fetcher EXCEPT !.pc = "delay",
                                     !.waits = Append(@, feedBackoff(fetcher.attempt))]
                ELSE [fetcher EXCEPT !.pc = "returned", !.failed = TRUE]
  /\ UNCHANGED telegram /\ IoFrame

\* the wait elapses: the next attempt
FeedDelayDone ==
  /\ fetcher.pc = "delay"
  /\ fetcher' = [fetcher EXCEPT !.pc = "parsing", !.attempt = @ + 1, !.parses = @ + 1]
  /\ UNCHANGED telegram /\ IoFrame

RECURSIVE Pow2(_)
Pow2(k) == IF k = 0 THEN 1 ELSE 2 * Pow2(k - 1)

\* variant: the same wait after every failed attempt
backoffFlat(attempt) == delay

\* the wait of sendWithRetry after a failed attempt
backoff(attempt) == delay * Pow2(attempt - 1)

\* TelegramService.setDryRunMode
setDryRunMode(isDryRun) ==
  /\ telegram.pc \in {"idle", "resolved", "rejected"}
  /\ telegram.isDryRun # isDryRun
  /\ telegram' = [telegram EXCEPT !.isDryRun = isDryRun]
  /\ UNCHANGED fetcher /\ IoFrame

\* TelegramService.initialize succeeds (in dry-run mode without a bot)
initialize ==
  /\ telegram.pc \in {"idle", "resolved", "rejected"}
  /\ ~telegram.isInitialized
  /\ telegram' = [telegram EXCEPT !.isInitialized = TRUE]
  /\ UNCHANGED fetcher /\ IoFrame

\* the first call of bot.sendMessage for a part
StartPart(tg, part) ==
  [tg EXCEPT !.pc = "sending", !.part = part, !.attempt = 1, !.waits = <<>>,
             !.netCalls = @ + 1]

\* TelegramService.sendMessage for a message that splitMessage cuts into
\* parts, up to its first await
sendMessage(parts) ==
  /\ telegram.pc \in {"idle", "resolved", "rejected"}
  /\ LET tg == [telegram EXCEPT !.parts = parts, !.part = 0, !.attempt = 0,
                                !.waits = <<>>, !.netCalls = 0, !.error = "none",
                                !.calledDry = telegram.isDryRun]
     IN telegram' = IF ~tg.isInitialized
                    THEN [tg EXCEPT !.pc = "rejected", !.error = "notInitialized"]
                    ELSE IF tg.isDryRun THEN [tg EXCEPT !.pc = "resolved"]
                    ELSE StartPart(tg, 1)
  /\ UNCHANGED fetcher /\ IoFrame

\* BanksaladMessenger.sendArticle: sendDirectMessage posts to the channel
\* with the same retry loop; the messenger has no dry-run mode and needs no
\* initialization
sendDirectMessage ==
  /\ telegram.pc \in {"idle", "resolved", "rejected"}
  /\ telegram' = StartPart([telegram EXCEPT !.parts = 1, !.netCalls = 0, !.error = "none",
                                            !.calledDry = telegram.isDryRun], 1)
  /\ UNCHANGED fetcher /\ IoFrame

\* bot.sendMessage resolves: sendWithRetry returns, the next part or the end
BotSendOk ==
  /\ telegram.pc = "sending"
  /\ telegram' = IF telegram.part < telegram.parts
                 THEN StartPart(telegram, telegram.part + 1)
                 ELSE [telegram EXCEPT !.pc = "resolved"]
  /\ UNCHANGED fetcher /\ IoFrame

\* bot.sendMessage rejects: a wait and another attempt, or sendWithRetry
\* throws and sendMessage rethrows
BotSendFail ==
  /\ telegram.pc = "sending"
  /\ telegram' = IF telegram.attempt < maxAttempts
                 THEN [telegram EXCEPT !.pc = "sleeping",
                                       !.waits = Append(@, backoff(telegram.attempt))]
                 ELSE [telegram EXCEPT !.pc = "rejected", !.error = "sendFailed"]
  /\ UNCHANGED fetcher /\ IoFrame

\* the wait elapses: the next attempt
SleepDone ==
  /\ telegram.pc = "sleeping"
  /\ telegram' = [telegram EXCEPT !.pc = "sending", !.attempt = @ + 1, !.netCalls = @ + 1]
  /\ UNCHANGED fetcher /\ IoFrame

IoInit == Init /\ kind = "kofe" /\ cacheMode = "bypass"

IoNext ==
  \/ getNewArticles
  \/ ParseFeedOk
  \/ ParseFeedFail
  \/ FeedDelayDone
  \/ \E isDryRun \in BOOLEAN : setDryRunMode(isDryRun)
  \/ initialize
  \/ \E parts \in 1..MaxParts : sendMessage(parts)
  \/ sendDirectMessage
  \/ BotSendOk
  \/ BotSendFail
  \/ SleepDone

IoSpec == IoInit /\ [][IoNext]_vars

(***************************************************************************)
(* AdvancedContentFilter: isRelevantContent and getDetailedFilterResult    *)
(* applied to an article, for a strict and for a lenient source.  Scores   *)
(* are integers in units of 1/100000 (a score in thousandths times a       *)
(* weight in percent).                                                     *)
(***************************************************************************)
Max(a, b) == IF a > b THEN a ELSE b

\* variant: no exclusion pattern ever matches
hasExclusionContentNever(article) == FALSE

\* AdvancedContentFilter.hasExclusionContent
hasExclusionContent(article) == article.excl

\* the weights of the five scores, in percent, and the weighted sum of the
\* scores plus the penalty
weights == [project |-> 40, frontend |-> 30, ai |-> 20, context |-> 15, tools |-> 10]

weightedScore(article) ==
  article.project * weights.project + article.frontend * weights.frontend
  + article.ai * weights.ai + article.context * weights.context
  + article.tools * weights.tools + article.penalty * 100

\* the thresholds and the floor of a lenient source
threshold(lenient) == IF lenient THEN 5000 ELSE 25000
floor == 10000

\* the title and the content isRelevantContent builds: it reads contentEncoded,
\* summary and content, never description.  descriptionOnly marks an article
\* whose keywords all stand in its description, its only body field.
textOfIsRelevantContent(article) ==
  IF article.descriptionOnly
  THEN [PlainArticle EXCEPT !.title = article.title, !.descriptionOnly = TRUE]
  ELSE article

\* getDetailedFilterResult falls back to description as well
textOfGetDetailedFilterResult(article) == article

\* (article.title || '').toLowerCase()
toLowerCaseThrows(article) == article.title = "number"

\* AdvancedContentFilter.isRelevantContent; totalScore is declared const, so
\* the assignment that raises it to the floor throws
isRelevantContent(article, lenient) ==
  IF toLowerCaseThrows(article) THEN FilterThrew
  ELSE LET text == textOfIsRelevantContent(article)
           totalScore == Max(0, weightedScore(text))
       IN IF hasExclusionContent(text) THEN FilterOut(FALSE, 0)
          ELSE IF ~lenient THEN FilterOut(totalScore >= threshold(FALSE), totalScore)
          ELSE IF text.backendOnly THEN FilterOut(FALSE, totalScore)
          ELSE IF text.event THEN FilterOut(TRUE, Max(totalScore, 50000))
          ELSE IF (text.dev \/ text.tech) /\ totalScore < floor THEN FilterThrew
          ELSE FilterOut(totalScore >= threshold(TRUE), totalScore)

\* AdvancedContentFilter.getDetailedFilterResult; its list of tech keywords
\* is the one of isRelevantContent plus 'article', 'community'
getDetailedFilterResult(article, lenient) ==
  IF toLowerCaseThrows(article) THEN FilterThrew
  ELSE LET text == textOfGetDetailedFilterResult(article)
           raw == weightedScore(text)
           totalScore == IF lenient /\ (text.dev \/ text.tech \/ text.community) /\ raw < floor
                         THEN Max(raw, floor) ELSE raw
       IN IF hasExclusionContent(text) THEN FilterOut(FALSE, 0)
          ELSE IF lenient /\ text.event THEN FilterOut(TRUE, 80000)
          ELSE IF lenient /\ text.backendOnly THEN FilterOut(FALSE, 0)
          ELSE FilterOut(totalScore >= threshold(lenient), totalScore)

FilterFrame ==
  UNCHANGED <<cacheVars, diskOk, today, kind, argvTest, peer, batch, fetcher, telegram, appVars,
              schedVars, call>> /\ Quiet

FilterCalled(op, out) ==
  [filterCall EXCEPT !.op = op, !.out = out,
                     !.called = @ \cup {op}, !.outs[op] = out]

CallIsRelevantContent ==
  /\ filterCall' = FilterCalled("isRelevantContent",
                                isRelevantContent(filterCall.article, filterCall.lenient))
  /\ FilterFrame

CallGetDetailedFilterResult ==
  /\ filterCall' = FilterCalled("getDetailedFilterResult",
                                getDetailedFilterResult(filterCall.article, filterCall.lenient))
  /\ FilterFrame

\* any article, read by the filter of a strict or of a lenient source
FilterInit ==
  /\ BaseInit /\ kind = "kofe" /\ cacheMode = "bypass"
  /\ dateUtils = InitDateUtils
  /\ serviceModule = InitServiceModule
  /\ \E article \in Articles, lenient \in BOOLEAN :
       filterCall = [NoFilterCall EXCEPT !.article = article, !.lenient = lenient]

FilterNext == CallIsRelevantContent \/ CallGetDetailedFilterResult

FilterSpec == FilterInit /\ [][FilterNext]_vars

(***************************************************************************)
(* The lookback window: --filter-days=N is parsed by parseCliConfig, set   *)
(* process-wide by setGlobalFilterDays (OnceExecutor.execute and           *)
(* Scheduler.initialize) and read back by the date filters;                *)
(* DateFilterUtils takes its days from --days=N and validates them.        *)
(***************************************************************************)
DigitValue(c) == CASE c = "0" -> 0 [] c = "3" -> 3 [] c = "9" -> 9

RECURSIVE LeadingDigits(_)
LeadingDigits(str) ==
  IF str = <<>> \/ Head(str) \notin DigitChars THEN <<>>
  ELSE <<Head(str)>> \o LeadingDigits(Tail(str))

RECURSIVE DigitsValue(_)
DigitsValue(ds) ==
  IF ds = <<>> THEN 0
  ELSE DigitsValue(SubSeq(ds, 1, Len(ds) - 1)) * 10 + DigitValue(ds[Len(ds)])

\* parseInt(string): an optional sign, then the longest run of digits; NaN
\* when there is none.  parseInt(undefined) is NaN
parseInt(given, str) ==
  LET neg == str # <<>> /\ Head(str) = "-"
      ds == LeadingDigits(IF neg THEN Tail(str) ELSE str)
  IN IF ~given \/ ds = <<>> THEN NaN
     ELSE Num(IF neg THEN 0 - DigitsValue(ds) ELSE DigitsValue(ds))

\* value || fallback: NaN and 0 are falsy
orElse(value, fallback) == IF value.nan \/ value.n = 0 THEN fallback ELSE value.n

\* variant: the days are stored as given
setGlobalFilterDaysAsGiven(days) == days

\* setGlobalFilterDays: Math.max(1, Math.min(30, days))
setGlobalFilterDays(days) == Max(1, Min(30, days))

MIN_FILTER_DAYS == 1
MAX_FILTER_DAYS == 30
DEFAULT_FILTER_DAYS == 1

WindowFrame ==
  UNCHANGED <<cacheVars, diskOk, today, kind, argvTest, peer, batch, ioVars, serviceModule,
              scheduler, schedVars, call>> /\ Quiet

\* parseCliConfig: filtering.filterDays = parseInt(value of --filter-days=) || 1
parseCliConfig ==
  /\ dateUtils.pc = "argv"
  /\ dateUtils' = [dateUtils EXCEPT
                     !.pc = "parsed",
                     !.filterDays = orElse(parseInt(dateUtils.given, dateUtils.value), 1)]
  /\ WindowFrame

\* OnceExecutor.execute: setGlobalFilterDays(CLI_CONFIG.filtering.filterDays)
OnceExecutorExecute ==
  /\ dateUtils.pc = "parsed"
  /\ dateUtils' = [dateUtils EXCEPT
                     !.pc = "set", !.setBy = "OnceExecutor",
                     !.globalFilterDays = setGlobalFilterDays(dateUtils.filterDays)]
  /\ WindowFrame

\* Scheduler.initialize: setGlobalFilterDays(this.params.filtering?.filterDays || 1)
SchedulerInitialize ==
  /\ dateUtils.pc = "parsed"
  /\ dateUtils' = [dateUtils EXCEPT
                     !.pc = "set", !.setBy = "Scheduler",
                     !.globalFilterDays =
                        setGlobalFilterDays(orElse(Num(dateUtils.filterDays), 1))]
  /\ WindowFrame

\* getGlobalFilterDays, as the date filter of the GitHub source calls it
getGlobalFilterDays ==
  /\ dateUtils' = [dateUtils EXCEPT
                     !.read = [op |-> "getGlobalFilterDays", threw |-> FALSE,
                               days |-> dateUtils.globalFilterDays]]
  /\ WindowFrame

\* filterRecentArticles(articles): days = null reads globalFilterDays
filterRecentArticles ==
  /\ dateUtils' = [dateUtils EXCEPT
                     !.read = [op |-> "filterRecentArticles", threw |-> FALSE,
                               days |-> dateUtils.globalFilterDays]]
  /\ WindowFrame

\* DateFilterUtils._validateDays throws outside MIN_FILTER_DAYS..MAX_FILTER_DAYS
validateDaysThrows(days) == days < MIN_FILTER_DAYS \/ days > MAX_FILTER_DAYS

\* DateFilterUtils.parseCliDateOptions keeps the default when the value of
\* --days= is not a number; getFilterStartDate validates the days it is given
getFilterStartDate ==
  /\ LET parsed == parseInt(dateUtils.given, dateUtils.value)
         days == IF parsed.nan THEN DEFAULT_FILTER_DAYS ELSE parsed.n
     IN dateUtils' = [dateUtils EXCEPT
                        !.read = [op |-> "getFilterStartDate",
                                  threw |-> validateDaysThrows(days),
                                  days |-> days]]
  /\ WindowFrame

\* any value of the flag, or no flag
WindowInit ==
  /\ BaseInit /\ kind = "kofe" /\ cacheMode = "bypass"
  /\ filterCall = NoFilterCall
  /\ serviceModule = InitServiceModule
  /\ \E given \in BOOLEAN, value \in SeqsUpTo(Chars, MaxArgLen) :
       /\ ~given => value = <<>>
       /\ dateUtils = [InitDateUtils EXCEPT !.given = given, !.value = value]

WindowNext ==
  \/ parseCliConfig
  \/ OnceExecutorExecute
  \/ SchedulerInitialize
  \/ getGlobalFilterDays
  \/ filterRecentArticles
  \/ getFilterStartDate

WindowSpec == WindowInit /\ [][WindowNext]_vars

(***************************************************************************)
(* A run of one service through executeService, of the multi-source        *)
(* Scheduler (runManualCheck(false)) or of the OnceExecutor                *)
(* (runManualCheck(true)): the cache property of the service is replaced   *)
(* for the run and restored in finally, and the polling cycle of the       *)
(* scheduler calls the cache its constructor was given.  The waits between *)
(* two sends change nothing and are left out.                              *)
(***************************************************************************)
\* filterNewPosts and markAsSent of the object a reference leads to.  The
\* dummy of a dry run returns the posts and stores nothing; the wrapper hands
\* today's posts (the feeds hold no others) to the DailyCache.
filterNewPostsOf(ref, posts, bypass) ==
  IF ref = "dryRunCache" THEN CacheResult(posts, dailyCache, cacheFile)
  ELSE filterNewPosts(cacheMode, dailyCache, cacheFile, today, diskOk, posts, bypass, TRUE)

markAsSentOf(ref, postId, bypass) ==
  IF ref = "dryRunCache" THEN CacheResult(TRUE, dailyCache, cacheFile)
  ELSE markAsSent(cacheMode, dailyCache, cacheFile, today, diskOk, postId, bypass)

DryFrame ==
  UNCHANGED <<cacheMode, diskOk, today, kind, argvTest, peer, batch, ioVars, dateUtils,
              scheduler, isRunning, isManualRunning, stats, overrideRuns, task, call>> /\ Quiet

\* the run starts: runManualCheck sets the bypass flag, executeArticleCheck
\* awaits the fetch
StartRun(cache, bypass) ==
  /\ serviceModule' = [serviceModule EXCEPT
                         !.cache = cache, !.pc = "fetch", !.runs = @ + 1,
                         !.successCount = 0, !.failCount = 0,
                         !.before = [seen |-> SeenToday, file |-> cacheFile]]
  /\ bypassCache' = bypass
  /\ UNCHANGED <<dailyCache, cacheFile>>

\* the run ends: finally of runManualCheck, then finally of executeService
\* (serviceModule.cache = originalCache)
EndRun ==
  /\ serviceModule' = [serviceModule EXCEPT
                         !.cache = "DailyCache", !.pc = "idle",
                         !.newArticles = <<>>, !.idx = 0]
  /\ bypassCache' = FALSE

\* Scheduler.executeService: the wrapper, or the dummy when params.dryRun
SchedulerExecuteService ==
  /\ serviceModule.entry = "Scheduler" /\ serviceModule.pc = "idle"
  /\ serviceModule.runs < MaxRuns
  /\ StartRun(IF serviceModule.dryRun THEN "dryRunCache" ELSE "filterWrapper", FALSE)
  /\ DryFrame

\* OnceExecutor.executeService: setupDryRunCache, runManualCheck(isOnceMode)
OnceExecuteService ==
  /\ serviceModule.entry = "OnceExecutor" /\ serviceModule.pc = "idle"
  /\ serviceModule.runs < MaxRuns
  /\ StartRun(IF serviceModule.dryRun THEN "dryRunCache" ELSE serviceModule.cache, TRUE)
  /\ DryFrame

\* the fetch resolves: this.cache.filterNewPosts(articles, getPostId, this.bypassCache)
RunFetchReturn(feed) ==
  /\ serviceModule.pc = "fetch"
  /\ IF Len(feed) = 0
     THEN EndRun /\ UNCHANGED <<dailyCache, cacheFile>>
     ELSE LET r == filterNewPostsOf(serviceModule.schedulerCache, feed, bypassCache)
          IN /\ dailyCache' = r.dc
             /\ cacheFile' = r.file
             /\ IF Len(r.ret) = 0 THEN EndRun
                ELSE /\ serviceModule' = [serviceModule EXCEPT
                                            !.pc = "send", !.newArticles = r.ret, !.idx = 1]
                     /\ UNCHANGED bypassCache
  /\ DryFrame

\* after item idx of the loop: the next send, or the run ends
RunNextItem(sm) ==
  IF sm.idx < Len(sm.newArticles)
  THEN /\ serviceModule' = [sm EXCEPT !.idx = @ + 1]
       /\ UNCHANGED bypassCache
  ELSE /\ serviceModule' = [sm EXCEPT !.cache = "DailyCache", !.pc = "idle",
                                      !.newArticles = <<>>, !.idx = 0]
       /\ bypassCache' = FALSE

\* the messenger resolves (a dry-run messenger simulates the send): the
\* schedulers that mark each delivery call this.cache.markAsSent
RunSendOk ==
  /\ serviceModule.pc = "send"
  /\ LET url == getPostId(forOf(serviceModule.newArticles, serviceModule.idx))
         r == IF kind = "kofe"
              THEN markAsSentOf(serviceModule.schedulerCache, url, bypassCache)
              ELSE CacheResult(TRUE, dailyCache, cacheFile)
     IN /\ dailyCache' = r.dc
        /\ cacheFile' = r.file
  /\ RunNextItem([serviceModule EXCEPT !.successCount = @ + 1])
  /\ DryFrame

\* the messenger rejects: caught inside the loop
RunSendFail ==
  /\ serviceModule.pc = "send"
  /\ RunNextItem([serviceModule EXCEPT !.failCount = @ + 1])
  /\ UNCHANGED <<dailyCache, cacheFile>>
  /\ DryFrame

\* the process: dry run or not, schedule mode (the DailyCache in memory mode,
\* or file mode under CI) or once mode (the ServiceLoader asks for bypass mode)
DryInit ==
  /\ BaseInit
  /\ filterCall = NoFilterCall
  /\ dateUtils = InitDateUtils
  /\ \E dryRun \in BOOLEAN, entry \in {"Scheduler", "OnceExecutor"} :
       /\ entry = "OnceExecutor" => cacheMode = "bypass"
       /\ entry = "Scheduler" => cacheMode # "bypass"
       /\ serviceModule = [InitServiceModule EXCEPT !.dryRun = dryRun, !.entry = entry]

DryNext ==
  \/ SchedulerExecuteService
  \/ OnceExecuteService
  \/ \E feed \in Feeds : RunFetchReturn(feed)
  \/ RunSendOk
  \/ RunSendFail

DrySpec == DryInit /\ [][DryNext]_vars

(***************************************************************************)
(* The multi-source Scheduler: every cron tick calls executeAllServices,   *)
(* which runs executeService for all loaded services under                 *)
(* Promise.allSettled, aggregates the results and updates stats.           *)
(***************************************************************************)
\* variant: a tick never finds a pass running
skipTickNever(running) == FALSE

\* if (this.isRunning) { ...; return; }
skipTick(running) == running

PassFrame ==
  UNCHANGED <<cacheVars, diskOk, today, kind, argvTest, peer, batch, ioVars, dateUtils,
              serviceModule, schedVars, call>> /\ Quiet

\* a cron tick: skipped while a pass runs, else the pass starts and every
\* executeService is called
executeAllServices ==
  /\ scheduler' =
       IF skipTick(scheduler.isRunning)
       THEN [scheduler EXCEPT !.lastTick = "skipped", !.skippedTicks = IncRuns(@)]
       ELSE [scheduler EXCEPT !.isRunning = TRUE, !.pending = Sources,
                              !.values = [s \in Sources |-> "none"],
                              !.inFlight = @ + 1, !.lastTick = "started"]
  /\ PassFrame

\* the aggregation after Promise.allSettled: result.value.success throws on a
\* fulfilled result without a value, and the catch counts a failed run;
\* otherwise totalRuns and, when every service succeeded, successRuns
aggregate(stats0, values) ==
  IF \E s \in Sources : values[s] = "noValue"
  THEN [stats0 EXCEPT !.failedRuns = IncRuns(@)]
  ELSE [stats0 EXCEPT !.totalRuns = IncRuns(@),
                      !.successRuns = IF \A s \in Sources : values[s] = "ok"
                                      THEN IncRuns(@) ELSE @]

\* executeService of service s resolves (its catch turns every error into a
\* result); after the last one the pass aggregates and its finally clears
\* isRunning
PassServiceSettles(s, value) ==
  /\ s \in scheduler.pending
  /\ LET values == [scheduler.values EXCEPT ![s] = value]
         pending == scheduler.pending \ {s}
     IN scheduler' =
          IF pending # {}
          THEN [scheduler EXCEPT !.pending = pending, !.values = values,
                                 !.lastTick = "none"]
          ELSE [scheduler EXCEPT !.pending = pending, !.values = values,
                                 !.stats = aggregate(@, values),
                                 !.isRunning = FALSE, !.inFlight = @ - 1,
                                 !.lastTick = "none"]
  /\ PassFrame

MultiInit == Init /\ kind = "kofe" /\ cacheMode = "bypass"

MultiNext ==
  \/ executeAllServices
  \/ \E s \in Sources, value \in ServiceValues : PassServiceSettles(s, value)

MultiSpec == MultiInit /\ [][MultiNext]_vars

\* the cache API reads nothing of the scheduler: one scheduler class is enough
CacheInit == Init /\ kind = "kofe"

CacheSpec == CacheInit /\ [][CacheNext]_vars

FileSpec == CacheInit /\ [][FileNext]_vars

\* Triggers arrive while the budget of runs lasts.
Next ==
  \/ Budget /\ executeScheduledJob
  \/ Budget /\ \E t \in Tasks, b \in BOOLEAN : runManualCheck(t, b)
  \/ \E t \in Tasks : ManualPoll(t)
  \/ \E t \in Tasks, feed \in Feeds : FetchReturn(t, feed)
  \/ \E t \in Tasks : FetchThrow(t)
  \/ \E t \in Tasks : CycleThrow(t)
  \/ \E t \in Tasks : SendOk(t)
  \/ \E t \in Tasks : SendFail(t)
  \/ \E t \in Tasks : DelayDone(t)
  \/ \E t \in Tasks, u \in Ids : TestFetchReturn(t, u)
  \/ \E t \in Tasks : TestThrow(t)
  \/ \E t \in Tasks : TestSendOk(t)
  \/ DayTick

Spec == Init /\ [][Next]_vars

(***************************************************************************)
(* Progress.  The wait loop exists only in BaseScheduler.runManualCheck,   *)
(* so the schedulers that inherit it are the ones observed.  Cron ticks    *)
(* and manual triggers keep arriving for as long as the process lives (the *)
(* RunStats counters saturate at MaxRuns).  Every await of a run settles:  *)
(* the fetch, each send, each delay; the one-second timer of the wait loop *)
(* fires again and again, and a poll that finds isRunning false goes on.   *)
(***************************************************************************)
LiveInit == Init /\ kind = "kofe"

LiveNext ==
  \/ executeScheduledJob
  \/ \E t \in Tasks, b \in BOOLEAN : runManualCheck(t, b)
  \/ \E t \in Tasks : ManualPoll(t)
  \/ \E t \in Tasks, feed \in Feeds : FetchReturn(t, feed)
  \/ \E t \in Tasks : FetchThrow(t)
  \/ \E t \in Tasks : SendOk(t)
  \/ \E t \in Tasks : SendFail(t)
  \/ \E t \in Tasks : DelayDone(t)
  \/ DayTick

RunSettles(t) ==
  \/ \E feed \in Feeds : FetchReturn(t, feed)
  \/ FetchThrow(t)
  \/ SendOk(t)
  \/ SendFail(t)
  \/ DelayDone(t)

Fairness ==
  \A t \in Tasks : WF_vars(RunSettles(t)) /\ WF_vars(ManualPoll(t))

LiveSpec == LiveInit /\ [][LiveNext]_vars /\ Fairness


(***************************************************************************)
(* Properties.                                                             *)
(***************************************************************************)
DedupModes == {"memory", "file"}

C2_FailedNotSeen ==
  (last.result.status = "returned" /\ cacheMode # "bypass" /\ ~last.bypassArg)
    => ~last.failedSeen

\* C3: at most one polling cycle (executeArticleCheck) of the source is in flight.
C3_OneCycleInFlight ==
  Cardinality({t \in Tasks : task[t].pc \in Cycle}) <= 1

\* C4: a manual run triggered while a scheduled run was in flight is not in its
\* polling cycle while that scheduled run is still in its own.
C4_ManualAfterScheduled ==
  \A m \in Tasks :
    (task[m].trigger = "manual" /\ task[m].pc \in Cycle /\ task[m].sawInFlight # 0)
      => ~(task[task[m].sawInFlight].trigger = "scheduled"
           /\ task[task[m].sawInFlight].pc \in Cycle)

\* C5: a scheduled trigger that arrives while a run is in flight is skipped: it
\* holds no invocation of its own and returns at once without a result.
C5_ScheduledSkipped ==
  /\ \A t \in Tasks : task[t].trigger = "scheduled" => task[t].sawInFlight = 0
  /\ (last.trigger = "scheduled" /\ last.sawInFlight # 0)
       => last.result.status = "skipped"

\* C6: every manual run that waits in runManualCheck for the run in flight to
\* finish eventually enters its polling cycle.
C6_ManualEventuallyRuns ==
  \A t \in Tasks :
    (task[t].trigger = "manual" /\ task[t].pc = "waiting") ~> (task[t].pc \in Cycle)

\* C9: a run invoked with the bypass flag skips no article in filterNewPosts and
\* changes neither the Map nor the file of the cache, whatever the cache mode.
C9_BypassRunNoDedup ==
  /\ \A t \in Tasks :
       (task[t].trigger = "manual" /\ task[t].bypassArg)
         => (~task[t].skippedSeen /\ ~task[t].stored)
  /\ (last.trigger = "manual" /\ last.bypassArg)
       => (~last.skippedSeen /\ ~last.stored)

\* C7: in bypass mode filterNewPosts returns its input, hasSent returns false,
\* and the Map and the file stay as the constructor left them.
C7_BypassModeNoEffect ==
  cacheMode = "bypass" =>
    /\ call.cur.op = "filterNewPosts" => call.cur.ret = call.cur.posts
    /\ call.cur.op = "hasSent" => call.cur.ret = FALSE
    /\ dailyCache = EmptyMap
    /\ cacheFile = MissingFile

\* C8: in memory and file modes a default filterNewPosts call returns all its
\* posts when none of their identifiers has been seen today, and the same call
\* made again on the same day returns nothing.
C8_FilterTwice ==
  (cacheMode \in DedupModes /\ call.cur.op = "filterNewPosts"
     /\ ~call.cur.bypass /\ call.cur.mark)
    => /\ call.cur.fresh => call.cur.ret = call.cur.posts
       /\ call.cur.repeats => call.cur.ret = <<>>

\* C8 witness: a non-empty feed filtered a second time with the same call.
C8_Witness ==
  /\ cacheMode \in DedupModes
  /\ call.cur.op = "filterNewPosts" /\ call.cur.repeats
  /\ call.cur.posts # <<>>

\* C10: what the cache considers seen today was marked today: an identifier
\* marked on an earlier day only is not seen, purge or no purge.
C10_DayRollover ==
  /\ \A u \in SeenToday : <<today, u>> \in call.marked
  /\ (cacheMode # "bypass" /\ call.cur.op = "hasSent" /\ ~call.cur.bypass
        /\ call.cur.ret = TRUE)
       => <<call.cur.day, call.cur.id>> \in call.marked

\* C10 witness: u1 was marked yesterday only, yesterday's bucket is still in the
\* Map (no purge), and hasSent reports it unseen today.
C10_Witness ==
  /\ today = 1 /\ cacheMode \in DedupModes
  /\ <<0, "u1">> \in call.marked /\ <<1, "u1">> \notin call.marked
  /\ getTodayKey(0) \in DOMAIN dailyCache
  /\ call.cur.op = "hasSent" /\ call.cur.id = "u1" /\ ~call.cur.bypass
  /\ call.cur.day = 1 /\ call.cur.ret = FALSE

\* C11: cleanupOldCache removes every bucket but today's, leaves today's bucket
\* as it was, and returns the number of buckets it removed.
C11_CleanupOldCache ==
  [][(call'.cur.op = "cleanupOldCache" /\ UNCHANGED <<today, diskOk>>) =>
       /\ DOMAIN dailyCache' = DOMAIN dailyCache \cap {getTodayKey(today)}
       /\ \A k \in DOMAIN dailyCache' : dailyCache'[k] = dailyCache[k]
       /\ call'.cur.ret = Cardinality(DOMAIN dailyCache \ DOMAIN dailyCache')]_vars

\* C11 witness: a cleanup that removed yesterday's bucket and kept a non-empty
\* bucket of today.
C11_Witness ==
  /\ call.cur.op = "cleanupOldCache" /\ call.cur.ret = 1
  /\ DOMAIN dailyCache = {getTodayKey(today)}
  /\ SeenToday # {}

\* C12: in file mode an identifier this source marked today and wrote to the
\* file is reported seen by a cache that a fresh process constructs from the
\* file on the same day.
C12_FreshProcessSeesMarked ==
  cacheMode = "file" =>
    \A u \in Ids :
      <<today, u>> \in call.marked
        => hasSent(cacheMode, NewDailyCache(cacheMode, cacheFile, today),
                   cacheFile, today, u, FALSE).ret

\* C13: a source's cache reports as seen today only identifiers of its own
\* source, whatever the other sources of this process or of an earlier one did
\* with their caches.
C13_CacheOwnedBySource ==
  SeenToday \subseteq Ids

\* C14: in file mode, while the disk accepts writes, a cache call that changes
\* the Map keeps the file's bucket of today equal to today's Set (they are equal
\* after construction, so they stay equal until a write fails).
C14_FileFollowsMap ==
  [][(/\ cacheMode = "file" /\ diskOk
      /\ FileToday(cacheFile) = SeenToday
      /\ UNCHANGED <<today, diskOk>>
      /\ call'.cur.op \in {"markAsSent", "filterNewPosts", "markMultipleAsSent",
                          "cleanupOldCache", "hasSent"}
      /\ dailyCache' # dailyCache)
       => FileToday(cacheFile') = TodaySeenIn(dailyCache')]_vars

\* what a cache call is given and what it works on
cacheView ==
  <<cacheMode, dailyCache, cacheFile, diskOk, today, call.cur.op, call.cur.id,
    call.cur.posts, call.cur.bypass, call.cur.mark, call.cur.day>>

\* C15: in file mode a failed load or a failed write is absorbed.  A cache
\* constructed from an unreadable file starts with nothing seen today; a
\* markAsSent or filterNewPosts whose write fails completes, and today's Set
\* holds what it marked; hasSent answers from today's Set, whatever the file holds.
C15_FileFailuresAbsorbed ==
  [][(cacheMode = "file" /\ (call'.cur.op = "none" \/ UNCHANGED <<today, diskOk>>)) =>
       CASE call'.cur.op = "none" ->
              (call.cur.op # "none" /\ cacheFile.st = "corrupt") => dailyCache' = EmptyMap
         [] call'.cur.op = "markAsSent" ->
              ~diskOk => /\ call'.cur.id \in TodaySeenIn(dailyCache')
                         /\ SeenToday \subseteq TodaySeenIn(dailyCache')
         [] call'.cur.op = "filterNewPosts" ->
              (call'.cur.mark /\ ~diskOk)
                => /\ call'.cur.ret
                        = FilterUnseen(call'.cur.posts, TodaySet(dailyCache, today))
                   /\ Range(PostIds(call'.cur.posts)) \cup SeenToday
                        \subseteq TodaySeenIn(dailyCache')
         [] call'.cur.op = "hasSent" ->
              ~call'.cur.bypass => call'.cur.ret = (call'.cur.id \in SeenToday)
         [] OTHER -> TRUE]_cacheView

\* C15 witness: the write of a markAsSent failed, and the identifier is in
\* today's Set although the file does not hold it.
C15_Witness ==
  /\ cacheMode = "file" /\ ~diskOk
  /\ call.cur.op = "markAsSent" /\ call.cur.day = today
  /\ call.cur.id \in SeenToday
  /\ call.cur.id \notin FileToday(cacheFile)

\* C16: a run leaves its delivery loop only after the last unseen item, it
\* returns normally, and every unseen item was either delivered or counted as
\* failed: messagesSent + failed is the number of unseen items.
C16_FailedDeliveryCounted ==
  [][\A t \in Tasks :
       (task[t].pc \in {"send", "delay"} /\ task'[t].pc \notin {"send", "delay"})
         => /\ task[t].idx = Len(task[t].newArticles)
            /\ last'.result.status = "returned"
            /\ last'.result.messagesSent + last'.result.failed
                 = Len(task[t].newArticles)]_vars


\* the services of the finished once-mode run
Ran == 1..batch.n

C18_FetchFailureReported ==
  (/\ batch.phase = "done"
   /\ Cardinality({s \in Ran : batch.inv[s].fetchFailed}) = 1
   /\ \A s \in Ran : batch.inv[s].st = "fulfilled" /\ batch.inv[s].res.value.success)
  => /\ batch.summary.success = batch.n - 1
     /\ batch.summary.failed = 1
     /\ \A s \in Ran : batch.inv[s].fetchFailed => ~batch.summary.details[s].success

\* C19: when exactly one service runs into the timeout and every other
\* service returns, the finished run counts one failed service, and the
\* detail of that service names it and carries the timeout error.
C19_TimeoutNamed ==
  (/\ batch.phase = "done"
   /\ Cardinality({s \in Ran : batch.inv[s].st = "rejected"}) = 1
   /\ \A s \in Ran : batch.inv[s].st = "fulfilled" => batch.inv[s].res.value.success)
  => /\ batch.summary.failed = 1
     /\ \A s \in Ran : batch.inv[s].st = "rejected" =>
          /\ ~batch.summary.details[s].success
          /\ batch.summary.details[s].error = "timeout"
          /\ batch.summary.details[s].service = s

\* C20: an invocation has started only when every invocation of every
\* earlier batch has settled and one cooldown per earlier batch has elapsed;
\* a cooldown is only ever waited for with items left, so none follows the
\* last batch.
C20_BatchesSequential ==
  LET BatchOf(s) == (s - 1) \div batch.batchSize
  IN /\ \A s \in Ran : batch.inv[s].st # "notStarted" =>
          /\ \A r \in Ran : BatchOf(r) < BatchOf(s) =>
                batch.inv[r].st \in {"fulfilled", "rejected"}
          /\ batch.cooldowns >= BatchOf(s)
     /\ \A s \in Ran : batch.inv[s].st = "pending" => batch.cooldowns = BatchOf(s)
     /\ batch.phase = "cooldown" => batch.i + batch.batchSize < batch.n
     /\ (batch.phase = "done" /\ batch.n > 0) => batch.cooldowns = BatchOf(batch.n)

\* the third of three batches of one service is running after two cooldowns,
\* and a service of an earlier batch had timed out
C20_Witness ==
  /\ batch.phase = "running" /\ batch.n = NSources /\ batch.batchSize = 1
  /\ batch.i = 2 /\ batch.cooldowns = 2
  /\ batch.inv[3].st = "pending"
  /\ batch.inv[1].st = "rejected" /\ batch.inv[2].st = "fulfilled"

\* the invocations of processFn that are executing
Executing == {s \in Sources : batch.inv[s].exec = "running"}

\* C21: at every moment of the once-mode run, at most batchSize of the
\* invocations it has started are still executing.
C21_AtMostBatchSize ==
  batch.phase # "idle" => Cardinality(Executing) <= batch.batchSize

\* C22: when the call of a service returns after the timeout of its
\* invocation was recorded, the results pushed so far, the summary and the
\* recorded outcome of every invocation (its own included) stay as they are.
C22_LateCompletionIgnored ==
  [][\A s \in Sources :
       (/\ batch.inv[s].st = "rejected" /\ batch.inv[s].exec = "running"
        /\ batch'.inv[s].exec = "ended")
       => /\ batch'.results = batch.results
          /\ batch'.summary = batch.summary
          /\ \A r \in Sources : /\ batch'.inv[r].st = batch.inv[r].st
                                 /\ batch'.inv[r].res = batch.inv[r].res]_batch

\* the call of a timed-out service has returned after the run was summed up,
\* and the summary still counts it as the failure
C22_Witness ==
  /\ batch.phase = "done" /\ batch.n > 1
  /\ \E s \in Ran : /\ batch.inv[s].st = "rejected" /\ batch.inv[s].exec = "ended"
                     /\ ~batch.summary.details[s].success
  /\ batch.summary.failed = 1

\* C23: one call of the article service makes at most one attempt at the
\* feed: a failed fetch is not tried again inside the run.
C23_OneFetchAttempt == fetcher.parses <= 1

C29_DryRunSimulates ==
  telegram.calledDry => telegram.netCalls = 0 /\ telegram.pc = "resolved"

\* what the properties of RunStats and of the loop read of a turn
runView == <<stats, task, isRunning, isManualRunning>>

\* C25: a run that starts executing steps totalRuns by one; a run that ends
\* steps exactly one of successfulRuns and failedRuns by one, failedRuns
\* exactly when the run threw; and while no run executes,
\* totalRuns = successfulRuns + failedRuns.
C25_RunStatsCounted ==
  [][/\ \A t \in Tasks :
         (~InFlight(task[t]) /\ InFlight(task'[t]))
         => stats'.totalRuns = stats.totalRuns + 1
     /\ \A t \in Tasks :
         (InFlight(task[t]) /\ ~InFlight(task'[t]))
         => /\ stats'.totalRuns = stats.totalRuns
            /\ IF last'.result.status = "returned"
               THEN /\ stats'.successfulRuns = stats.successfulRuns + 1
                    /\ stats'.failedRuns = stats.failedRuns
               ELSE /\ stats'.successfulRuns = stats.successfulRuns
                    /\ stats'.failedRuns = stats.failedRuns + 1
     /\ (\A t \in Tasks : ~InFlight(task'[t]))
        => stats'.totalRuns = stats'.successfulRuns + stats'.failedRuns]_runView

\* C26: a flag is set only while a run that set it executes: isRunning
\* needs a run of executeJob in flight and isManualRunning a manual one, so
\* a run that has ended, by returning or by throwing, leaves both cleared.
C26_IdleAfterRun ==
  /\ isRunning => \E t \in Tasks : InFlight(task[t]) /\ task[t].viaJob
  /\ isManualRunning =>
       \E t \in Tasks : InFlight(task[t]) /\ task[t].viaJob /\ task[t].trigger = "manual"

\* the polling cycle of a manual run of executeJob has thrown and both flags
\* are cleared
C26_Witness ==
  /\ last.result.status = "threw" /\ last.viaJob /\ last.trigger = "manual"
  /\ ~isRunning /\ ~isManualRunning
  /\ stats.failedRuns > 0

\* C27: the messenger has been called for exactly the first idx of the
\* admitted items, in the order in which filterNewPosts returned them, and
\* the call under way is the one for item idx.
C27_DeliveryInOrder ==
  \A t \in Tasks :
    /\ task[t].idx <= Len(task[t].newArticles)
    /\ task[t].attempts = PostIds(SubSeq(task[t].newArticles, 1, task[t].idx))
    /\ task[t].pc \in {"send", "testSend", "delay"} => task[t].idx >= 1

\* the second of two different items is being sent after the first
C27_Witness ==
  \E t \in Tasks :
    /\ task[t].pc = "send" /\ task[t].idx = 2
    /\ task[t].attempts = <<"u2", "u1">>

\* C28: in a run that delivers more than one item, a delivery after the
\* first starts only when the delay has elapsed; a run that delivers
\* exactly one item never waits for the delay.
C28_DelayBetweenDeliveries ==
  [][\A t \in Tasks :
       /\ (task'[t].pc = "send" /\ task'[t].idx > 1 /\ task'[t].idx # task[t].idx)
          => task[t].pc = "delay"
       /\ task'[t].pc = "delay" => Len(task'[t].newArticles) > 1]_runView

C31_BackendOnlyFirst ==
  (filterCall.op # "none" /\ filterCall.lenient /\ filterCall.article.backendOnly)
  => /\ ~filterCall.out.threw
     /\ ~filterCall.out.isRelevant

\* C32: neither isRelevantContent nor getDetailedFilterResult throws, for
\* any article and for a strict and a lenient source.
C32_ScorerNeverThrows ==
  filterCall.op # "none" => ~filterCall.out.threw

\* C33: for every article and source configuration, isRelevantContent
\* yields the decision that getDetailedFilterResult reports in isRelevant
\* (and throws only where that one throws).
C33_WrapperAgrees ==
  filterCall.called = FilterOps
  => /\ filterCall.outs["isRelevantContent"].threw
          = filterCall.outs["getDetailedFilterResult"].threw
     /\ filterCall.outs["isRelevantContent"].isRelevant
          = filterCall.outs["getDetailedFilterResult"].isRelevant

\* C34: the score a call of the filter yields is never negative, whatever
\* penalties apply to the article.
C34_ScoreNotNegative ==
  (filterCall.op # "none" /\ ~filterCall.out.threw) => filterCall.out.score >= 0

\* C35: for a lenient source, an article that passes the exclusion, the
\* backend-only and the event gates, contains a dev keyword and has a
\* computed score below the floor is admitted.
C35_LenientFloorAdmits ==
  (/\ filterCall.op # "none" /\ filterCall.lenient
   /\ filterCall.article.title # "number"
   /\ ~filterCall.article.excl /\ ~filterCall.article.backendOnly
   /\ ~filterCall.article.event /\ filterCall.article.dev
   /\ weightedScore(filterCall.article) < floor)
  => /\ ~filterCall.out.threw
     /\ filterCall.out.isRelevant

\* C36: the weights the filter applies to the project, frontend, ai and
\* context scores sum to 1.0 (100 percent), and the weight of the tools score
\* is smaller than each of them.
C36_WeightsSumToOne ==
  filterCall.op # "none"
  => /\ weights.project + weights.frontend + weights.ai + weights.context = 100
     /\ \A c \in {"project", "frontend", "ai", "context"} : weights.tools < weights[c]

\* C37: once the window has been set from the command line, whatever the
\* value of the flag, globalFilterDays is within 1..30, and every date filter
\* that goes on with a number of days goes on with one within 1..30 (a value
\* outside is clamped by setGlobalFilterDays or refused by _validateDays).
C37_WindowInRange ==
  /\ dateUtils.pc = "set" => dateUtils.globalFilterDays \in 1..30
  /\ (dateUtils.read.op # "none" /\ ~dateUtils.read.threw) => dateUtils.read.days \in 1..30

\* --filter-days=99 has been set and read back as 30
C37_Witness ==
  /\ dateUtils.given /\ dateUtils.value = <<"9", "9">>
  /\ dateUtils.pc = "set" /\ dateUtils.filterDays = 99
  /\ dateUtils.read.op = "getGlobalFilterDays" /\ dateUtils.read.days = 30

\* the points at which the polling cycle of a run reads this.bypassCache next:
\* before filterNewPosts, and (schedulers that mark each delivery) before
\* markAsSent
ReadsBypassFlag(tk) == tk.pc = "fetch" \/ (kind = "kofe" /\ tk.pc = "send")

\* C38: whenever the polling cycle of a scheduled run, or of a manual run
\* invoked without bypass, reads the per-run bypass flag, the flag is false;
\* and when a manual run has ended the flag is false.
C38_BypassFlagPrivate ==
  /\ \A t \in Tasks :
       (ReadsBypassFlag(task[t]) /\ ~(task[t].trigger = "manual" /\ task[t].bypassArg))
       => ~bypassCache
  /\ last.trigger = "manual" => ~bypassCache

\* C39: during and after a run executed in dry-run mode, the real cache of
\* the source holds the identifiers it held when the run started, and the
\* cache file is the one of that moment.
C39_DryRunLeavesCache ==
  (serviceModule.dryRun /\ serviceModule.runs > 0)
  => /\ SeenToday = serviceModule.before.seen
     /\ cacheFile = serviceModule.before.file

\* C40: at most one executeAllServices pass is in flight; a tick that fires
\* while a pass runs is skipped and starts no service; and isRunning is set
\* exactly while a pass is in flight, so it is clear after a pass has ended,
\* normally or by an exception.
C40_OnePassInFlight ==
  /\ scheduler.inFlight <= 1
  /\ scheduler.isRunning <=> scheduler.inFlight = 1
  /\ scheduler.lastTick = "skipped" => scheduler.isRunning
  /\ scheduler.lastTick = "started" => scheduler.pending = Sources

\* a tick has been skipped, a pass has ended in the catch, and a later tick
\* has started a new pass
C40_Witness ==
  /\ scheduler.skippedTicks >= 1
  /\ scheduler.stats.failedRuns >= 1
  /\ scheduler.lastTick = "started" /\ scheduler.isRunning

====
